---- MODULE Spec2Model ----
(***************************************************************************)
(* xproli-backend: URL shortener with click analytics.                     *)
(*                                                                         *)
(* The model covers the link store (routes/links + models/Link), the       *)
(* click-event store (models/ClickEvent), the public redirect routes with  *)
(* their fire-and-forget click recorder (routes/redirect) and the          *)
(* analytics routes (routes/analytics).  Every HTTP request is one slot of *)
(* rq; a handler is cut into one action per stretch of code between two    *)
(* awaits, so that requests interleave exactly where the event loop lets   *)
(* them.                                                                   *)
(***************************************************************************)
EXTENDS Integers, Sequences, FiniteSets, TLC

(***************************************************************************)
(* Bounds of the model.                                                    *)
(***************************************************************************)
MaxReq == 3
MaxTime == 2
\* The analytics read path: length of the enumerated click-event stores, and
\* by how many events the generated stores exceed the cap of the clicks list.
MaxEvents == 3
MaxOver == 2
\* Longest x-forwarded-for header value, in characters.
MaxLen == 4

ReqIds == 1..MaxReq

Users == {"u1", "u2"}
Passwords == {"pw1", "pw2"}

(***************************************************************************)
(* Values of the program.                                                  *)
(***************************************************************************)
DefaultDomain == "xpro.li"

\* JavaScript's undefined: a string field the request or the document lacks.
Undefined == "undefined"
\* An absent expiresAt (dates are the positive clock values).
NoDate == 0
\* The null a query returns when no document matches.
Null == [id |-> 0]
\* The response of the error handler to an error that is not an AppError
\* (a rejected query or write, a validation or cast error).
ServerError == [status |-> 500, body |-> "Internal server error"]

VARIABLES links, clicks, now, rq

vars == <<links, clicks, now, rq>>

(***************************************************************************)
(* models/Link: the schema and its indexes.                                *)
(***************************************************************************)
\* linkSchema: defaults applied to a new document (a body without
\* passwordProtected is a body with passwordProtected false).
NewLink(id, owner, body) ==
    [ id |-> id,
      ownerId |-> owner,
      domain |-> IF body.domain = Undefined THEN DefaultDomain ELSE body.domain,
      slug |-> body.slug,
      destinationUrl |-> body.destinationUrl,
      expiresAt |-> body.expiresAt,
      passwordProtected |-> body.passwordProtected,
      password |-> body.password,
      analyticsEnabled |-> TRUE ]

\* unique: true on slug, and the two compound unique indexes: a write is
\* rejected with a duplicate-key error when another document has the same key.
IndexesAllowAlways(others, l) == TRUE

IndexesAllow(others, l) ==
    \A o \in others :
        /\ o.slug # l.slug
        /\ ~(o.ownerId = l.ownerId /\ o.slug = l.slug)
        /\ ~(o.slug = l.slug /\ o.domain = l.domain)

\* password is declared select: false: a query that does not ask for it
\* returns the document without the field.
Projected(l) == [l EXCEPT !.password = Undefined]

\* The document a filter selects in the store, or null.
Stored(matches) ==
    IF matches = {} THEN Null ELSE CHOOSE l \in matches : TRUE

\* Link.findOne(filter) without a projection: what the query hands back.
FindOne(matches) ==
    IF matches = {} THEN Null ELSE Projected(Stored(matches))

ByDomainSlug(d, s) == {l \in links : l.domain = d /\ l.slug = s}
BySlug(s) == {l \in links : l.slug = s}
ById(id) == {l \in links : l.id = id}
ByIdOwner(id, u) == {l \in links : l.id = id /\ l.ownerId = u}

(***************************************************************************)
(* Request slots.                                                          *)
(*   kind     the route the request hit                                    *)
(*   pc       where its handler stands                                     *)
(*   arg      params, query and body of the request                        *)
(*   doc      the document as it stood in the store when the handler's     *)
(*            lookup ran; snap is what the lookup returned to the handler  *)
(*   at       the new Date() the handler read                              *)
(*   resp     the response sent (status 0: none yet)                       *)
(*   write    state of the ClickEvent.create the handler issued            *)
(*   lookups, attempts   number of link lookups and of ClickEvent.create   *)
(*            calls the handler has made                                   *)
(*   total    the count a read reports (totalClicks, results)              *)
(*   data     the data of the response, where the model carries it         *)
(***************************************************************************)
NoResp == [status |-> 0, body |-> ""]
NoArg == [op |-> "none"]
NoData == [none |-> TRUE]
Idle == [kind |-> "none", pc |-> "idle", arg |-> NoArg, doc |-> Null,
         snap |-> Null, at |-> NoDate, resp |-> NoResp, write |-> "none",
         lookups |-> 0, attempts |-> 0, total |-> 0, data |-> NoData]

\* Slots are taken in order: requests are distinguished by what they ask,
\* not by the slot they sit in.
Free(r) == /\ rq[r].kind = "none"
           /\ IF r = 1 THEN TRUE ELSE rq[r - 1].kind # "none"

Done(r, status, body) ==
    [rq EXCEPT ![r].pc = "done", ![r].resp = [status |-> status, body |-> body]]

Init ==
    /\ links = {}
    /\ clicks = <<>>
    /\ now = 1
    /\ rq = [r \in ReqIds |-> Idle]

\* The wall clock read by new Date().
Tick ==
    /\ now < MaxTime
    /\ now' = now + 1
    /\ UNCHANGED <<links, clicks, rq>>

(***************************************************************************)
(* routes/redirect: GET /:domain/:slug and GET /:slug.                     *)
(***************************************************************************)
\* link.expiresAt && link.expiresAt < new Date()
Expired(l, t) == l.expiresAt # NoDate /\ l.expiresAt < t

\* !password || password !== link.password
PasswordRejectedOnlyMissing(pw, l) == pw = Undefined

PasswordRejected(pw, l) == pw = Undefined \/ pw # l.password

\* The gates of both redirect handlers, in the order the code runs them.
GateOutcomePasswordFirst(l, pw, t) ==
    IF l.id = 0 THEN "notfound"
    ELSE IF l.passwordProtected /\ PasswordRejected(pw, l) THEN "password"
    ELSE IF Expired(l, t) THEN "expired"
    ELSE "pass"

GateOutcome(l, pw, t) ==
    IF l.id = 0 THEN "notfound"
    ELSE IF Expired(l, t) THEN "expired"
    ELSE IF l.passwordProtected /\ PasswordRejected(pw, l) THEN "password"
    ELSE "pass"

\* The response of a failed gate.
GateResponseSwapped(outcome) ==
    IF outcome = "notfound" THEN [status |-> 410, body |-> "Link has expired"]
    ELSE IF outcome = "expired" THEN [status |-> 404, body |-> "Link not found"]
    ELSE [status |-> 401, body |-> "Password required"]

GateResponse(outcome) ==
    IF outcome = "notfound" THEN [status |-> 404, body |-> "Link not found"]
    ELSE IF outcome = "expired" THEN [status |-> 410, body |-> "Link has expired"]
    ELSE [status |-> 401, body |-> "Password required"]

\* await Link.findOne({ domain, slug }) / await Link.findOne({ slug })
RedirectLookup(r, a) ==
    /\ Free(r)
    /\ LET matches == IF a.route = "domain" THEN ByDomainSlug(a.domain, a.slug)
                      ELSE BySlug(a.slug)
       IN rq' = [rq EXCEPT ![r] =
              [Idle EXCEPT !.kind = "redirect", !.pc = "found",
                           !.arg = a,
                           !.doc = Stored(matches),
                           !.snap = FindOne(matches),
                           !.lookups = 1]]
    /\ UNCHANGED <<links, clicks, now>>

\* The handler from the lookup's return to the call of trackClickEvent: the
\* gates, then ClickEvent.create is issued and not awaited.
RedirectGateHonouring(r) ==
    /\ rq[r].kind = "redirect"
    /\ rq[r].pc = "found"
    /\ LET outcome == GateOutcome(rq[r].snap, rq[r].arg.password, now)
       IN rq' = IF outcome = "pass"
                THEN IF rq[r].snap.analyticsEnabled
                     THEN [rq EXCEPT ![r].pc = "tracked", ![r].at = now,
                                     ![r].write = "pending",
                                     ![r].attempts = rq[r].attempts + 1]
                     ELSE [rq EXCEPT ![r].pc = "tracked", ![r].at = now]
                ELSE [rq EXCEPT ![r].pc = "done", ![r].at = now,
                                ![r].resp = GateResponse(outcome)]
    /\ UNCHANGED <<links, clicks, now>>

RedirectGate(r) ==
    /\ rq[r].kind = "redirect"
    /\ rq[r].pc = "found"
    /\ LET outcome == GateOutcome(rq[r].snap, rq[r].arg.password, now)
       IN rq' = IF outcome = "pass"
                THEN [rq EXCEPT ![r].pc = "tracked", ![r].at = now,
                                ![r].write = "pending",
                                ![r].attempts = rq[r].attempts + 1]
                ELSE [rq EXCEPT ![r].pc = "done", ![r].at = now,
                                ![r].resp = GateResponse(outcome)]
    /\ UNCHANGED <<links, clicks, now>>

\* res.redirect(link.destinationUrl), the statement after the call of
\* trackClickEvent.  The code runs it in the same turn as the call; the
\* model also lets the write land first, a superset of the code's orders.
RedirectRespondSurfacing(r) ==
    /\ rq[r].kind = "redirect"
    /\ rq[r].pc = "tracked"
    /\ rq' = IF rq[r].write = "failed"
             THEN Done(r, 500, "Internal server error")
             ELSE Done(r, 302, rq[r].snap.destinationUrl)
    /\ UNCHANGED <<links, clicks, now>>

RedirectRespondAwaiting(r) ==
    /\ rq[r].kind = "redirect"
    /\ rq[r].pc = "tracked"
    /\ rq[r].write \in {"ok", "failed"}
    /\ rq' = Done(r, 302, rq[r].snap.destinationUrl)
    /\ UNCHANGED <<links, clicks, now>>

RedirectRespond(r) ==
    /\ rq[r].kind = "redirect"
    /\ rq[r].pc = "tracked"
    /\ rq' = Done(r, 302, rq[r].snap.destinationUrl)
    /\ UNCHANGED <<links, clicks, now>>

\* The ClickEvent.create of trackClickEvent settles: the store inserts the
\* document, or rejects the write and the catch turns the rejection into null.
TrackWriteRetrying(r) ==
    /\ rq[r].kind = "redirect"
    /\ rq[r].write = "pending"
    /\ \E accepted \in BOOLEAN :
        IF accepted
        THEN /\ clicks' = Append(clicks, [linkId |-> rq[r].snap.id, by |-> r])
             /\ rq' = [rq EXCEPT ![r].write = "ok"]
        ELSE /\ clicks' = clicks
             /\ rq' = IF rq[r].attempts < 2
                      THEN [rq EXCEPT ![r].attempts = rq[r].attempts + 1]
                      ELSE [rq EXCEPT ![r].write = "failed"]
    /\ UNCHANGED <<links, now>>

TrackWrite(r) ==
    /\ rq[r].kind = "redirect"
    /\ rq[r].write = "pending"
    /\ \E accepted \in BOOLEAN :
        IF accepted
        THEN /\ clicks' = Append(clicks, [linkId |-> rq[r].snap.id, by |-> r])
             /\ rq' = [rq EXCEPT ![r].write = "ok"]
        ELSE /\ clicks' = clicks
             /\ rq' = [rq EXCEPT ![r].write = "failed"]
    /\ UNCHANGED <<links, now>>

(***************************************************************************)
(* routes/links: POST /, GET /, PATCH /:id, DELETE /:id.                   *)
(***************************************************************************)
\* The bodies of the create requests the model issues, all passing
\* linkValidation: the same (domain, slug) with two destinations and two
\* gatings, the same slug on another domain, and another slug.
CreateBodies ==
    { [domain |-> Undefined, slug |-> "a", destinationUrl |-> "https://x",
       expiresAt |-> NoDate, passwordProtected |-> FALSE, password |-> Undefined],
      [domain |-> Undefined, slug |-> "a", destinationUrl |-> "https://y",
       expiresAt |-> 1, passwordProtected |-> TRUE, password |-> "pw1"],
      [domain |-> "d2.io", slug |-> "a", destinationUrl |-> "https://y",
       expiresAt |-> NoDate, passwordProtected |-> FALSE, password |-> Undefined],
      [domain |-> Undefined, slug |-> "b", destinationUrl |-> "https://x",
       expiresAt |-> 1, passwordProtected |-> FALSE, password |-> Undefined] }

\* The bodies of the patch requests the model issues: destinationUrl is
\* required by linkValidation, any other field of the schema may come with it.
PatchBodies ==
    { [destinationUrl |-> "https://x", slug |-> "b"],
      [destinationUrl |-> "https://x", domain |-> "d2.io"],
      [destinationUrl |-> "https://x", ownerId |-> "u2"],
      [destinationUrl |-> "https://x", analyticsEnabled |-> FALSE] }

\* The redirect requests the model issues: route, domain, slug, ?password=.
RedirectArgs ==
    [route : {"domain"}, domain : {DefaultDomain}, slug : {"a"},
     password : Passwords \cup {Undefined}]
    \cup [route : {"slug"}, domain : {Undefined}, slug : {"a"},
          password : {Undefined}]
    \cup [route : {"domain"}, domain : {"d2.io"}, slug : {"a"},
          password : {Undefined}]
    \cup [route : {"slug"}, domain : {Undefined}, slug : {"b"},
          password : {Undefined}]

\* The create requests the model issues: the second user creates the links
\* that do not expire.
CreateArgs ==
    {a \in Users \X CreateBodies : a[1] = "u1" \/ a[2].expiresAt = NoDate}

\* The ids a request can name: those of the stored links, and one of no link
\* (for a filter { _id, ownerId } the link of another owner is no link).
NoLink == 0
StoredIds == {l.id : l \in links}
KnownIds == StoredIds \cup {NoLink}
\* An id that is not the text of an ObjectId: casting it to the type of _id
\* fails, and the query is rejected with a CastError.
Malformed == -1

\* The POST /clicks requests the model issues: a body with linkId alone or
\* with every field clickEventSchema requires, for a stored link; an id of no
\* link; an id that is no ObjectId.
ClickArgs ==
    (StoredIds \X BOOLEAN) \cup ({NoLink, Malformed} \X {FALSE})

\* The GET /links/:linkId requests the model issues.
AnalyticsArgs ==
    (Users \X StoredIds) \cup ({"u1"} \X {NoLink, Malformed})

\* The update document applied to a stored link: the fields it names are set.
Updated(l, body) ==
    [f \in DOMAIN l |-> IF f \in DOMAIN body THEN body[f] ELSE l[f]]

\* POST /: the availability check, await Link.findOne({ domain, slug }).
CreateCheckSameUrl(r, u, body) ==
    /\ Free(r)
    /\ LET d == IF body.domain = Undefined THEN DefaultDomain ELSE body.domain
           same == {l \in ByDomainSlug(d, body.slug) :
                        l.destinationUrl = body.destinationUrl}
           started == [Idle EXCEPT !.kind = "create", !.pc = "insert",
                                   !.arg = [user |-> u, body |-> body],
                                   !.doc = Stored(ByDomainSlug(d, body.slug)),
                                   !.snap = FindOne(same),
                                   !.lookups = 1]
       IN rq' = [rq EXCEPT ![r] =
              IF started.snap.id # 0
              THEN [started EXCEPT !.pc = "done",
                        !.resp = [status |-> 400, body |-> "Slug already in use"]]
              ELSE started]
    /\ UNCHANGED <<links, clicks, now>>

CreateCheck(r, u, body) ==
    /\ Free(r)
    /\ LET d == IF body.domain = Undefined THEN DefaultDomain ELSE body.domain
           started == [Idle EXCEPT !.kind = "create", !.pc = "insert",
                                   !.arg = [user |-> u, body |-> body],
                                   !.doc = Stored(ByDomainSlug(d, body.slug)),
                                   !.snap = FindOne(ByDomainSlug(d, body.slug)),
                                   !.lookups = 1]
       IN rq' = [rq EXCEPT ![r] =
              IF started.snap.id # 0
              THEN [started EXCEPT !.pc = "done",
                        !.resp = [status |-> 400, body |-> "Slug already in use"]]
              ELSE started]
    /\ UNCHANGED <<links, clicks, now>>

\* POST /: await Link.create(...); a duplicate key is a server error.
CreateInsert(r) ==
    /\ rq[r].kind = "create"
    /\ rq[r].pc = "insert"
    /\ LET l == NewLink(r, rq[r].arg.user, rq[r].arg.body)
       IN IF IndexesAllow(links, l)
          THEN /\ links' = links \cup {l}
               /\ rq' = Done(r, 201, l.destinationUrl)
          ELSE /\ links' = links
               /\ rq' = Done(r, 500, "duplicate key")
    /\ UNCHANGED <<clicks, now>>

\* PATCH /:id: one findOneAndUpdate({ _id, ownerId }, req.body).
PatchLinkAnyOwner(r, u, id, body) ==
    /\ Free(r)
    /\ LET matches == ById(id)
           old == Stored(matches)
           upd == Updated(old, body)
           started == [Idle EXCEPT !.kind = "patch", !.pc = "done",
                                   !.arg = [user |-> u, id |-> id, body |-> body],
                                   !.doc = old]
       IN IF matches = {}
          THEN /\ links' = links
               /\ rq' = [rq EXCEPT ![r] = [started EXCEPT
                        !.resp = [status |-> 404, body |-> "Link not found"]]]
          ELSE IF IndexesAllow(links \ {old}, upd)
          THEN /\ links' = (links \ {old}) \cup {upd}
               /\ rq' = [rq EXCEPT ![r] = [started EXCEPT
                        !.resp = [status |-> 200, body |-> upd.destinationUrl]]]
          ELSE /\ links' = links
               /\ rq' = [rq EXCEPT ![r] = [started EXCEPT
                        !.resp = [status |-> 500, body |-> "duplicate key"]]]
    /\ UNCHANGED <<clicks, now>>

PatchLink(r, u, id, body) ==
    /\ Free(r)
    /\ LET matches == ByIdOwner(id, u)
           old == Stored(matches)
           upd == Updated(old, body)
           started == [Idle EXCEPT !.kind = "patch", !.pc = "done",
                                   !.arg = [user |-> u, id |-> id, body |-> body],
                                   !.doc = old]
       IN IF matches = {}
          THEN /\ links' = links
               /\ rq' = [rq EXCEPT ![r] = [started EXCEPT
                        !.resp = [status |-> 404, body |-> "Link not found"]]]
          ELSE IF IndexesAllow(links \ {old}, upd)
          THEN /\ links' = (links \ {old}) \cup {upd}
               /\ rq' = [rq EXCEPT ![r] = [started EXCEPT
                        !.resp = [status |-> 200, body |-> upd.destinationUrl]]]
          ELSE /\ links' = links
               /\ rq' = [rq EXCEPT ![r] = [started EXCEPT
                        !.resp = [status |-> 500, body |-> "duplicate key"]]]
    /\ UNCHANGED <<clicks, now>>

\* DELETE /:id: one findOneAndDelete({ _id, ownerId }).
DeleteLinkCascading(r, u, id) ==
    /\ Free(r)
    /\ LET matches == ByIdOwner(id, u)
           started == [Idle EXCEPT !.kind = "delete", !.pc = "done",
                                   !.arg = [user |-> u, id |-> id],
                                   !.doc = Stored(matches)]
       IN /\ links' = links \ matches
          /\ clicks' = IF matches = {} THEN clicks
                       ELSE SelectSeq(clicks, LAMBDA c : c.linkId # id)
          /\ rq' = [rq EXCEPT ![r] = [started EXCEPT !.resp =
                IF matches = {} THEN [status |-> 404, body |-> "Link not found"]
                ELSE [status |-> 200, body |-> "null"]]]
    /\ UNCHANGED <<now>>

DeleteLink(r, u, id) ==
    /\ Free(r)
    /\ LET matches == ByIdOwner(id, u)
           started == [Idle EXCEPT !.kind = "delete", !.pc = "done",
                                   !.arg = [user |-> u, id |-> id],
                                   !.doc = Stored(matches)]
       IN /\ links' = links \ matches
          /\ rq' = [rq EXCEPT ![r] = [started EXCEPT !.resp =
                IF matches = {} THEN [status |-> 404, body |-> "Link not found"]
                ELSE [status |-> 200, body |-> "null"]]]
    /\ UNCHANGED <<clicks, now>>

(***************************************************************************)
(* routes/analytics: POST /clicks and GET /links/:linkId; models/ClickEvent.*)
(***************************************************************************)
\* The click events of one link, in store order.
ClicksOf(id) == SelectSeq(clicks, LAMBDA c : c.linkId = id)

\* POST /clicks: await Link.findById(linkId), then ClickEvent.create is
\* called.  complete: the body carries ip, device, browser and os, the
\* fields clickEventSchema requires.
ClickLookup(r, id, complete) ==
    /\ Free(r)
    /\ LET matches == ById(id)
           started == [Idle EXCEPT !.kind = "click",
                                   !.arg = [linkId |-> id, complete |-> complete],
                                   !.doc = Stored(matches),
                                   !.snap = FindOne(matches),
                                   !.lookups = 1]
       IN rq' = [rq EXCEPT ![r] =
              IF id = Malformed
              THEN [started EXCEPT !.pc = "done", !.resp = ServerError]
              ELSE IF matches = {}
              THEN [started EXCEPT !.pc = "done",
                        !.resp = [status |-> 404, body |-> "Link not found"]]
              ELSE [started EXCEPT !.pc = "create", !.write = "pending",
                                   !.attempts = 1]]
    /\ UNCHANGED <<links, clicks, now>>

\* POST /clicks: the awaited ClickEvent.create settles.  The document is
\* validated against clickEventSchema before it is sent to the store: a
\* missing required field rejects the call with a ValidationError.  A
\* validated document is inserted (201) or the store rejects the write.
\* Either rejection goes to the error handler.
ClickCreate(r) ==
    /\ rq[r].kind = "click"
    /\ rq[r].pc = "create"
    /\ IF ~rq[r].arg.complete
       THEN /\ clicks' = clicks
            /\ rq' = [rq EXCEPT ![r].pc = "done", ![r].resp = ServerError,
                                ![r].write = "invalid"]
       ELSE \E accepted \in BOOLEAN :
            IF accepted
            THEN /\ clicks' = Append(clicks,
                                     [linkId |-> rq[r].arg.linkId, by |-> r])
                 /\ rq' = [Done(r, 201, "clickEvent") EXCEPT ![r].write = "ok"]
            ELSE /\ clicks' = clicks
                 /\ rq' = [rq EXCEPT ![r].pc = "done", ![r].resp = ServerError,
                                     ![r].write = "failed"]
    /\ UNCHANGED <<links, now>>

\* GET /links/:linkId: the owner's link, then its click events.
GetAnalyticsAnyOwner(r, u, id) ==
    /\ Free(r)
    /\ LET matches == ById(id)
           started == [Idle EXCEPT !.kind = "analytics", !.pc = "done",
                                   !.arg = [user |-> u, id |-> id],
                                   !.doc = Stored(matches),
                                   !.snap = FindOne(matches),
                                   !.lookups = 1]
       IN rq' = [rq EXCEPT ![r] =
              IF id = Malformed
              THEN [started EXCEPT !.resp = ServerError]
              ELSE IF matches = {}
              THEN [started EXCEPT
                        !.resp = [status |-> 404, body |-> "Link not found"]]
              ELSE [started EXCEPT
                        !.resp = [status |-> 200, body |-> "success"],
                        !.total = Len(ClicksOf(id))]]
    /\ UNCHANGED <<links, clicks, now>>

GetAnalytics(r, u, id) ==
    /\ Free(r)
    /\ LET matches == ByIdOwner(id, u)
           started == [Idle EXCEPT !.kind = "analytics", !.pc = "done",
                                   !.arg = [user |-> u, id |-> id],
                                   !.doc = Stored(matches),
                                   !.snap = FindOne(matches),
                                   !.lookups = 1]
       IN rq' = [rq EXCEPT ![r] =
              IF id = Malformed
              THEN [started EXCEPT !.resp = ServerError]
              ELSE IF matches = {}
              THEN [started EXCEPT
                        !.resp = [status |-> 404, body |-> "Link not found"]]
              ELSE [started EXCEPT
                        !.resp = [status |-> 200, body |-> "success"],
                        !.total = Len(ClicksOf(id))]]
    /\ UNCHANGED <<links, clicks, now>>

\* GET / of routes/links: the user's links with their statistics.
ListLinks(r, u) ==
    /\ Free(r)
    /\ rq' = [rq EXCEPT ![r] =
           [Idle EXCEPT !.kind = "list", !.pc = "done",
                        !.arg = [user |-> u],
                        !.resp = [status |-> 200, body |-> "success"],
                        !.total = Cardinality({l \in links : l.ownerId = u})]]
    /\ UNCHANGED <<links, clicks, now>>

Next ==
    \/ Tick
    \/ \E r \in ReqIds :
        \/ \E a \in RedirectArgs : RedirectLookup(r, a)
        \/ RedirectGate(r)
        \/ RedirectRespond(r)
        \/ TrackWrite(r)
        \/ \E a \in CreateArgs : CreateCheck(r, a[1], a[2])
        \/ CreateInsert(r)
        \/ \E u \in Users, id \in StoredIds, body \in PatchBodies :
                PatchLink(r, u, id, body)
        \/ \E u \in Users, id \in StoredIds : DeleteLink(r, u, id)
        \/ \E a \in ClickArgs : ClickLookup(r, a[1], a[2])
        \/ ClickCreate(r)
        \/ \E a \in AnalyticsArgs : GetAnalytics(r, a[1], a[2])
        \/ \E u \in Users : ListLinks(r, u)

Spec == Init /\ [][Next]_vars

\* The event loop runs a handler's continuation once its await has settled:
\* the gates and the response of a redirect are weakly fair.  Nothing makes
\* the click-event store answer, and nothing makes a client send a request.
FairSpec ==
    Spec /\ \A r \in ReqIds : WF_vars(RedirectGate(r)) /\ WF_vars(RedirectRespond(r))

(***************************************************************************)
(* routes/analytics, GET /links/:linkId in full: the selection of the      *)
(* link's click events, the aggregation and the capped list.               *)
(***************************************************************************)
\* A string operand of || is falsy when it is undefined or empty.
Truthy(v) == v # Undefined /\ v # ""
\* v || d
OrElseNullish(v, d) == IF v # Undefined THEN v ELSE d

OrElse(v, d) == IF Truthy(v) THEN v ELSE d

EmptyMap == [k \in {} |-> 0]

\* acc[key] = (acc[key] || 0) + 1
BumpLastWins(acc, k) ==
    IF k \in DOMAIN acc THEN [acc EXCEPT ![k] = 1] ELSE acc @@ (k :> 1)

Bump(acc, k) ==
    IF k \in DOMAIN acc THEN [acc EXCEPT ![k] = @ + 1] ELSE acc @@ (k :> 1)

\* keys.reduce((acc, key) => { acc[key] = (acc[key] || 0) + 1; return acc },
\* acc): the keys are counted in list order, the accumulator passing through
\* the first half of the list and then through the second (the count of the
\* first half, never empty, is complete before the second half is entered).
RECURSIVE TallyInto(_, _)
TallyInto(acc, keys) ==
    IF Len(keys) = 0 THEN acc
    ELSE IF Len(keys) = 1 THEN Bump(acc, keys[1])
    ELSE LET half == Len(keys) \div 2
             first == TallyInto(acc, SubSeq(keys, 1, half))
         IN IF DOMAIN first = {} THEN first
            ELSE TallyInto(first, SubSeq(keys, half + 1, Len(keys)))

\* clicks.reduce((acc, click) => { const key = click[field] || default; ... },
\* {})
BreakdownNoInitialValue(evs, field, default) ==
    IF evs = <<>> THEN EmptyMap
    ELSE TallyInto(EmptyMap,
                   [i \in 1..Len(evs) - 1 |-> OrElse(evs[i + 1][field], default)])

Breakdown(evs, field, default) ==
    TallyInto(EmptyMap,
              [i \in 1..Len(evs) |-> OrElse(evs[i][field], default)])

\* The reduce of deviceBreakdown and browserBreakdown: the key is the value.
BreakdownRaw(evs, field) ==
    TallyInto(EmptyMap, [i \in 1..Len(evs) |-> evs[i][field]])

\* new Set(clicks.map(click => click[field])).size: undefined is a member of
\* the Set like any other value.
UniqueCount(evs, field) ==
    Cardinality({evs[i][field] : i \in 1..Len(evs)})

\* The metrics and breakdowns of the response.
Aggregate(evs) ==
    [ totalClicks |-> Len(evs),
      uniqueCountries |-> UniqueCount(evs, "country"),
      uniqueDevices |-> UniqueCount(evs, "device"),
      uniqueBrowsers |-> UniqueCount(evs, "browser"),
      referrerBreakdown |-> Breakdown(evs, "referrer", "Direct"),
      countryBreakdown |-> Breakdown(evs, "country", "Unknown"),
      deviceBreakdown |-> BreakdownRaw(evs, "device"),
      browserBreakdown |-> BreakdownRaw(evs, "browser"),
      utmBreakdown |->
          [ source |-> Breakdown(evs, "utmSource", "Direct"),
            medium |-> Breakdown(evs, "utmMedium", "None"),
            campaign |-> Breakdown(evs, "utmCampaign", "None") ] ]

\* if (startDate && endDate) query.timestamp = { $gte, $lte }: a query
\* parameter that is absent is NoDate.
NoQuery == [startDate |-> NoDate, endDate |-> NoDate]

HasWindow(q) == q.startDate # NoDate /\ q.endDate # NoDate

MatchesExclusive(c, id, q) ==
    /\ c.linkId = id
    /\ HasWindow(q) => (q.startDate <= c.timestamp /\ c.timestamp < q.endDate)

Matches(c, id, q) ==
    /\ c.linkId = id
    /\ HasWindow(q) => (q.startDate <= c.timestamp /\ c.timestamp <= q.endDate)

\* ClickEvent.find(query), in store order.
Selected(id, q) == SelectSeq(clicks, LAMBDA c : Matches(c, id, q))

Reverse(seq) == [i \in 1..Len(seq) |-> seq[Len(seq) + 1 - i]]

\* .sort('-timestamp'): descending timestamps.  The order of events with
\* equal timestamps is not specified by the store: ties come in store order
\* or in the reverse of it.
RECURSIVE SortDesc(_, _)
SortDesc(evs, ties) ==
    IF evs = <<>> THEN <<>>
    ELSE LET top == CHOOSE t \in {evs[i].timestamp : i \in 1..Len(evs)} :
                        \A i \in 1..Len(evs) : evs[i].timestamp <= t
             first == SelectSeq(evs, LAMBDA c : c.timestamp = top)
             rest == SelectSeq(evs, LAMBDA c : c.timestamp # top)
         IN (IF ties = "forward" THEN first ELSE Reverse(first))
                \o SortDesc(rest, ties)

\* clicks.slice(0, 100)
ClicksCap == 100

SliceTail(evs, n) ==
    IF Len(evs) <= n THEN evs ELSE SubSeq(evs, Len(evs) - n + 1, Len(evs))

Slice(evs, n) == IF Len(evs) <= n THEN evs ELSE SubSeq(evs, 1, n)

\* GET /links/:linkId, the whole handler: the owner's link, the selection,
\* the sort, the aggregation over the selection, the capped list.
GetAnalyticsData(r, u, id, q, ties) ==
    /\ Free(r)
    /\ LET matches == ByIdOwner(id, u)
           started == [Idle EXCEPT !.kind = "analytics", !.pc = "done",
                                   !.arg = [user |-> u, id |-> id, query |-> q],
                                   !.doc = Stored(matches),
                                   !.snap = FindOne(matches),
                                   !.lookups = 1]
           found == SortDesc(Selected(id, q), ties)
       IN rq' = [rq EXCEPT ![r] =
              IF id = Malformed
              THEN [started EXCEPT !.resp = ServerError]
              ELSE IF matches = {}
              THEN [started EXCEPT
                        !.resp = [status |-> 404, body |-> "Link not found"]]
              ELSE [started EXCEPT
                        !.resp = [status |-> 200, body |-> "success"],
                        !.total = Len(found),
                        !.data = Aggregate(found) @@
                                 [clicks |-> Slice(found, ClicksCap)]]]
    /\ UNCHANGED <<links, clicks, now>>

(***************************************************************************)
(* routes/links, GET / in full: the statistics of each link of the user.   *)
(***************************************************************************)
\* The metrics and breakdowns computed per link by GET /.
ListingStatsMediumDirect(evs) ==
    [ totalClicks |-> Len(evs),
      uniqueCountries |-> UniqueCount(evs, "country"),
      uniqueDevices |-> UniqueCount(evs, "device"),
      uniqueBrowsers |-> UniqueCount(evs, "browser"),
      referrerBreakdown |-> Breakdown(evs, "referrer", "Direct"),
      countryBreakdown |-> Breakdown(evs, "country", "Unknown"),
      deviceBreakdown |-> BreakdownRaw(evs, "device"),
      browserBreakdown |-> BreakdownRaw(evs, "browser"),
      utmBreakdown |->
          [ source |-> Breakdown(evs, "utmSource", "Direct"),
            medium |-> Breakdown(evs, "utmMedium", "Direct"),
            campaign |-> Breakdown(evs, "utmCampaign", "None") ] ]

ListingStats(evs) ==
    [ totalClicks |-> Len(evs),
      uniqueCountries |-> UniqueCount(evs, "country"),
      uniqueDevices |-> UniqueCount(evs, "device"),
      uniqueBrowsers |-> UniqueCount(evs, "browser"),
      referrerBreakdown |-> Breakdown(evs, "referrer", "Direct"),
      countryBreakdown |-> Breakdown(evs, "country", "Unknown"),
      deviceBreakdown |-> BreakdownRaw(evs, "device"),
      browserBreakdown |-> BreakdownRaw(evs, "browser"),
      utmBreakdown |->
          [ source |-> Breakdown(evs, "utmSource", "Direct"),
            medium |-> Breakdown(evs, "utmMedium", "None"),
            campaign |-> Breakdown(evs, "utmCampaign", "None") ] ]

\* clicks.slice(0, 5)
RecentCap == 5

\* ClickEvent.find({ linkId: link._id }) without a sort: the store returns
\* the events in its natural order, which is not specified: the order of
\* insertion or the reverse of it.
FoundUnsorted(id, natural) ==
    IF natural = "forward" THEN ClicksOf(id) ELSE Reverse(ClicksOf(id))

\* GET /, the whole handler: the links of the user, and for each its events,
\* the statistics over them and the first five of them.  The data maps the
\* id of each link to its statistics (data.links).
ListLinksData(r, u, natural) ==
    /\ Free(r)
    /\ LET own == {l \in links : l.ownerId = u}
       IN rq' = [rq EXCEPT ![r] =
              [Idle EXCEPT !.kind = "list", !.pc = "done",
                           !.arg = [user |-> u],
                           !.resp = [status |-> 200, body |-> "success"],
                           !.total = Cardinality(own),
                           !.data = [links |->
                              [id \in {l.id : l \in own} |->
                                 ListingStats(FoundUnsorted(id, natural)) @@
                                 [recentClicks |->
                                    Slice(FoundUnsorted(id, natural),
                                          RecentCap)]]]]]
    /\ UNCHANGED <<links, clicks, now>>

(***************************************************************************)
(* The analytics read path over a populated store: the link store holds    *)
(* two links of two owners, the click-event store any of the stores below, *)
(* and one request reads it.                                               *)
(***************************************************************************)
\* Click events as the store holds them: of the recorder (referrer "Direct"
\* and country "Unknown" written out) and of POST /clicks (optional fields
\* absent or empty).
EventKinds ==
    << [linkId |-> 1, timestamp |-> 1, country |-> Undefined,
        device |-> "desktop", browser |-> "Chrome", referrer |-> Undefined,
        utmSource |-> Undefined, utmMedium |-> Undefined,
        utmCampaign |-> Undefined],
       [linkId |-> 1, timestamp |-> 2, country |-> "Unknown",
        device |-> "mobile", browser |-> "Chrome", referrer |-> "Direct",
        utmSource |-> "news", utmMedium |-> "email",
        utmCampaign |-> Undefined],
       [linkId |-> 1, timestamp |-> 2, country |-> "IN",
        device |-> "desktop", browser |-> "Firefox", referrer |-> "https://r",
        utmSource |-> "news", utmMedium |-> Undefined,
        utmCampaign |-> "spring"],
       [linkId |-> 1, timestamp |-> 3, country |-> "IN",
        device |-> "mobile", browser |-> "Chrome", referrer |-> "",
        utmSource |-> "", utmMedium |-> "None",
        utmCampaign |-> "spring"],
       [linkId |-> 1, timestamp |-> 1, country |-> "US",
        device |-> "desktop", browser |-> "Unknown", referrer |-> "https://q",
        utmSource |-> "Direct", utmMedium |-> "email",
        utmCampaign |-> Undefined],
       [linkId |-> 2, timestamp |-> 2, country |-> "FR",
        device |-> "tablet", browser |-> "Safari", referrer |-> "https://s",
        utmSource |-> "ads", utmMedium |-> "cpc",
        utmCampaign |-> "autumn"] >>

EventKindSet == {EventKinds[i] : i \in 1..Len(EventKinds)}

\* Every store of at most MaxEvents events.
ShortStores == UNION {[1..n -> EventKindSet] : n \in 0..MaxEvents}

\* Stores around the cap: n events of the kinds in turn, with timestamps
\* all equal (step 0), cycling upwards (1) or downwards (2).
LongStore(n, step) ==
    [i \in 1..n |->
        [EventKinds[1 + (i % Len(EventKinds))] EXCEPT
            !.timestamp = 1 + ((i * step) % 3)]]

LongStores ==
    {LongStore(n, step) : n \in (ClicksCap + 10)..(ClicksCap + 20 + MaxOver),
                          step \in 0..2}

\* Stores around the cap of recentClicks.
MidStores ==
    {LongStore(n, step) : n \in (RecentCap + 1)..(RecentCap + 2 + MaxOver),
                          step \in 0..2}

AggLinks ==
    { NewLink(1, "u1", [domain |-> Undefined, slug |-> "a",
                        destinationUrl |-> "https://x", expiresAt |-> NoDate,
                        passwordProtected |-> FALSE, password |-> Undefined]),
      NewLink(2, "u2", [domain |-> Undefined, slug |-> "b",
                        destinationUrl |-> "https://x", expiresAt |-> NoDate,
                        passwordProtected |-> FALSE, password |-> Undefined]) }

\* ?startDate=&endDate= of the requests issued.
Queries ==
    { [startDate |-> a, endDate |-> b] :
        a \in {NoDate, 1, 2}, b \in {NoDate, 1, 2, 3} }

AggInit ==
    /\ links = AggLinks
    /\ clicks \in ShortStores \cup MidStores \cup LongStores
    /\ now = 1
    /\ rq = [r \in ReqIds |-> Idle]

AggNext ==
    \/ \E u \in Users, id \in {1, 2, NoLink}, q \in Queries,
          ties \in {"forward", "backward"} :
            GetAnalyticsData(1, u, id, q, ties)
    \/ \E u \in Users, natural \in {"forward", "backward"} :
            ListLinksData(1, u, natural)

AggSpec == AggInit /\ [][AggNext]_vars

(***************************************************************************)
(* routes/redirect, trackClickEvent: the address recorded with the click.  *)
(* Header values are sequences of characters; a header is absent or        *)
(* present with a value, which may be empty.                               *)
(***************************************************************************)
Chars == {"1", "2", ",", " "}
Strings(n) == UNION {[1..k -> Chars] : k \in 0..n}
Absent == [present |-> FALSE, value |-> <<>>]
Header(v) == [present |-> TRUE, value |-> v]

\* .split(",")[0]: the text before the first comma, all of it without one.
SplitFirst(s) ==
    LET commas == {i \in 1..Len(s) : s[i] = ","}
    IN IF commas = {} THEN s
       ELSE SubSeq(s, 1, (CHOOSE i \in commas : \A j \in commas : i <= j) - 1)

\* .trim(): without the white space at either end.
TrimStart(s) ==
    LET solid == {i \in 1..Len(s) : s[i] # " "}
    IN IF solid = {} THEN <<>>
       ELSE SubSeq(s, CHOOSE i \in solid : \A j \in solid : i <= j, Len(s))

Trim(s) ==
    LET solid == {i \in 1..Len(s) : s[i] # " "}
    IN IF solid = {} THEN <<>>
       ELSE SubSeq(s, CHOOSE i \in solid : \A j \in solid : i <= j,
                      CHOOSE i \in solid : \A j \in solid : j <= i)

\* An operand of ||: undefined and the empty string are falsy.
NonEmpty(o) == o.present /\ o.value # <<>>

UnknownIp == <<"U", "n", "k", "n", "o", "w", "n">>

\* const ip = req.headers["x-forwarded-for"]?.toString().split(",")[0].trim()
\*         || req.headers["x-real-ip"]?.toString()
\*         || req.socket.remoteAddress || "Unknown"
ClientIp(h) ==
    LET forwarded == IF h.xff.present
                     THEN Header(Trim(SplitFirst(h.xff.value)))
                     ELSE Absent
    IN IF NonEmpty(forwarded) THEN forwarded.value
       ELSE IF NonEmpty(h.xri) THEN h.xri.value
       ELSE IF NonEmpty(h.remote) THEN h.remote.value
       ELSE UnknownIp

\* The headers and the socket of the requests issued.
HeaderSets ==
    [ xff : {Absent} \cup {Header(v) : v \in Strings(MaxLen)},
      xri : {Absent, Header(<<>>), Header(<<" ", "1">>)},
      remote : {Absent, Header(<<"2", "2">>)} ]

\* trackClickEvent to the settling of its ClickEvent.create: the address is
\* resolved and stored with the event, or the store rejects the write.
TrackClickEvent(r) ==
    /\ rq[r].kind = "redirect"
    /\ rq[r].write = "pending"
    /\ \E accepted \in BOOLEAN :
        IF accepted
        THEN /\ clicks' = Append(clicks, [linkId |-> rq[r].snap.id, by |-> r,
                                          ip |-> ClientIp(rq[r].arg.headers)])
             /\ rq' = [rq EXCEPT ![r].write = "ok"]
        ELSE /\ clicks' = clicks
             /\ rq' = [rq EXCEPT ![r].write = "failed"]
    /\ UNCHANGED <<links, now>>

\* A redirect request for /a that has passed the gates, its tracking issued.
IpInit ==
    /\ links = AggLinks
    /\ clicks = <<>>
    /\ now = 1
    /\ \E h \in HeaderSets, l \in BySlug("a") :
        rq = [r \in ReqIds |->
                IF r = 1
                THEN [Idle EXCEPT !.kind = "redirect", !.pc = "tracked",
                         !.arg = [route |-> "slug", domain |-> Undefined,
                                  slug |-> "a", password |-> Undefined,
                                  headers |-> h],
                         !.doc = l, !.snap = Projected(l), !.at = 1,
                         !.write = "pending", !.lookups = 1, !.attempts = 1]
                ELSE Idle]

IpNext ==
    \/ TrackClickEvent(1)
    \/ RedirectRespond(1)

IpSpec == IpInit /\ [][IpNext]_vars

(***************************************************************************)
(* Observations on a request.                                              *)
(***************************************************************************)
IsRedirect(r) == rq[r].kind = "redirect"
Gated(r) == IsRedirect(r) /\ rq[r].pc \in {"tracked", "done"}
Redirected(r) == rq[r].pc = "done" /\ rq[r].resp.status = 302
GatePassed(r) == IsRedirect(r) /\ (rq[r].pc = "tracked" \/ Redirected(r))
GateFailed(r) == IsRedirect(r) /\ rq[r].pc = "done" /\ ~Redirected(r)
Found(r) == rq[r].doc.id # 0
WrongPassword(r) ==
    rq[r].arg.password = Undefined \/ rq[r].arg.password # rq[r].doc.password
\* The click events a request has put into the store.
ClicksBy(r) == Len(SelectSeq(clicks, LAMBDA c : c.by = r))
RedirectClicks ==
    Len(SelectSeq(clicks, LAMBDA c : rq[c.by].kind = "redirect"))

(***************************************************************************)
(* Redirect gating.                                                        *)
(***************************************************************************)
\* C1: a redirect request to a non-expired password-protected link whose
\* ?password= equals the password stored for the link is redirected to
\* destinationUrl and makes exactly one ClickEvent (one create call, one
\* event once the store has accepted it).
C1_CorrectPasswordRedirects ==
    \A r \in ReqIds :
        ( /\ IsRedirect(r) /\ rq[r].pc = "done" /\ Found(r)
          /\ ~Expired(rq[r].doc, rq[r].at)
          /\ rq[r].doc.passwordProtected
          /\ rq[r].arg.password # Undefined
          /\ rq[r].arg.password = rq[r].doc.password )
        => /\ Redirected(r)
           /\ rq[r].resp.body = rq[r].doc.destinationUrl
           /\ rq[r].attempts = 1
           /\ rq[r].write = "ok" => ClicksBy(r) = 1

\* C2: a redirect request to a non-expired password-protected link whose
\* ?password= is missing or differs from the stored password is answered
\* 401 "Password required", is not redirected, and the click recorder is
\* not called: the request makes no ClickEvent.
C2_WrongPasswordRejected ==
    \A r \in ReqIds :
        ( /\ Gated(r) /\ Found(r)
          /\ ~Expired(rq[r].doc, rq[r].at)
          /\ rq[r].doc.passwordProtected
          /\ WrongPassword(r) )
        => /\ rq[r].pc = "done"
           /\ rq[r].resp = [status |-> 401, body |-> "Password required"]
           /\ rq[r].attempts = 0
           /\ rq[r].write = "none"
           /\ ClicksBy(r) = 0

C2_Witness ==
    \E r \in ReqIds :
        /\ IsRedirect(r) /\ rq[r].pc = "done" /\ Found(r)
        /\ rq[r].doc.passwordProtected
        /\ rq[r].doc.password = "pw1"
        /\ rq[r].arg.password = "pw2"
        /\ rq[r].resp.status = 401

\* C3: on both routes a link whose expiresAt lies before the handler's
\* new Date() is answered 410, whatever passwordProtected and the password
\* sent: never 401, never a redirect, never a ClickEvent.
C3_ExpiryBeforePassword ==
    \A r \in ReqIds :
        (Gated(r) /\ Found(r) /\ Expired(rq[r].doc, rq[r].at))
        => /\ rq[r].pc = "done"
           /\ rq[r].resp.status = 410
           /\ rq[r].attempts = 0
           /\ rq[r].write = "none"
           /\ ClicksBy(r) = 0

C3_Witness ==
    /\ \E r \in ReqIds :
        /\ IsRedirect(r) /\ rq[r].arg.route = "slug"
        /\ Found(r) /\ rq[r].doc.passwordProtected
        /\ rq[r].arg.password = Undefined
        /\ rq[r].pc = "done" /\ rq[r].resp.status = 410
    /\ \E r \in ReqIds :
        /\ IsRedirect(r) /\ rq[r].arg.route = "domain"
        /\ Found(r) /\ rq[r].doc.passwordProtected
        /\ rq[r].arg.password = "pw1"
        /\ rq[r].pc = "done" /\ rq[r].resp.status = 410

\* C4: a redirect request whose lookup matches no link is answered 404
\* after that one lookup: no second lookup, no redirect, no ClickEvent.
C4_NotFoundIsTerminal ==
    \A r \in ReqIds :
        (IsRedirect(r) /\ ~Found(r))
        => /\ rq[r].lookups = 1
           /\ rq[r].pc \in {"found", "done"}
           /\ rq[r].pc = "done" =>
                rq[r].resp = [status |-> 404, body |-> "Link not found"]
           /\ rq[r].attempts = 0
           /\ rq[r].write = "none"
           /\ ClicksBy(r) = 0

\* The slug exists, on another domain than the one asked for.
C4_Witness ==
    \E r \in ReqIds :
        /\ IsRedirect(r) /\ rq[r].arg.route = "domain" /\ ~Found(r)
        /\ rq[r].pc = "done" /\ rq[r].resp.status = 404
        /\ \E l \in links : l.slug = rq[r].arg.slug /\ l.domain # rq[r].arg.domain

(***************************************************************************)
(* The click recorder.                                                     *)
(***************************************************************************)
\* C5: a failure of the click recorder never reaches the redirect handler:
\* a request that passed the gates is answered with the redirect to
\* destinationUrl, whether its click write is pending, was accepted or was
\* rejected, and never with an error.
C5_TrackingFailureAbsorbed ==
    \A r \in ReqIds :
        (IsRedirect(r) /\ rq[r].attempts >= 1)
        => /\ rq[r].pc \in {"tracked", "done"}
           /\ rq[r].pc = "done" =>
                /\ rq[r].resp.status = 302
                /\ rq[r].resp.body = rq[r].doc.destinationUrl
           /\ rq[r].write = "failed" => ClicksBy(r) = 0

C5_Witness ==
    \E r \in ReqIds :
        IsRedirect(r) /\ rq[r].write = "failed" /\ Redirected(r)

\* C6: under FairSpec, every redirect request that passed the gates is
\* eventually answered with the redirect, although nothing makes its click
\* write ever settle.
C6_RedirectNeverWaitsForWrite ==
    \A r \in ReqIds :
        (IsRedirect(r) /\ rq[r].pc = "tracked") ~> Redirected(r)

\* The response is out while the write is still pending.
C6_Witness ==
    \E r \in ReqIds :
        IsRedirect(r) /\ Redirected(r) /\ rq[r].write = "pending"

\* C7: over every interleaving, a redirect request that passed the gates
\* has made exactly one ClickEvent.create call and one that failed a gate
\* none; a rejected write is not retried; the store holds at most one event
\* per request, never more redirect events than gate-passing requests, and
\* exactly one per gate-passing request when every write was accepted.
C7_OneWritePerPassingRequest ==
    /\ \A r \in ReqIds :
        IsRedirect(r) =>
            /\ GatePassed(r) => rq[r].attempts = 1 /\ rq[r].write # "none"
            /\ GateFailed(r) => rq[r].attempts = 0 /\ rq[r].write = "none"
            /\ rq[r].pc = "found" => rq[r].attempts = 0 /\ rq[r].write = "none"
            /\ ClicksBy(r) = IF rq[r].write = "ok" THEN 1 ELSE 0
    /\ RedirectClicks <= Cardinality({r \in ReqIds : GatePassed(r)})
    /\ (\A r \in ReqIds : GatePassed(r) => rq[r].write = "ok")
         => RedirectClicks = Cardinality({r \in ReqIds : GatePassed(r)})

\* Two requests for the same slug, in flight together, one event each.
C7_Witness ==
    \E r1, r2 \in ReqIds :
        /\ r1 # r2 /\ IsRedirect(r1) /\ IsRedirect(r2)
        /\ rq[r1].arg.slug = rq[r2].arg.slug
        /\ rq[r1].write = "ok" /\ rq[r2].write = "ok"
        /\ rq[r1].pc = "tracked" /\ rq[r2].pc = "tracked"
        /\ RedirectClicks = 2

(***************************************************************************)
(* The click-event store.                                                  *)
(***************************************************************************)
\* C8: every ClickEvent, at the moment it is inserted, references a link
\* that is in the link store at that moment.
C8_ClickReferencesStoredLink ==
    [][ Len(clicks') > Len(clicks)
        => \E l \in links' : l.id = clicks'[Len(clicks')].linkId ]_vars

\* C9: no operation modifies or removes a stored ClickEvent: every step
\* leaves the click-event store as it was or appends to it.
C9_ClicksAppendOnly ==
    [][ /\ Len(clicks') >= Len(clicks)
        /\ SubSeq(clicks', 1, Len(clicks)) = clicks ]_vars

\* A link was deleted by its owner and its events are still stored.
C9_Witness ==
    \E r \in ReqIds :
        /\ rq[r].kind = "delete" /\ rq[r].resp.status = 200
        /\ \E i \in 1..Len(clicks) : clicks[i].linkId = rq[r].arg.id

(***************************************************************************)
(* The link store.                                                         *)
(***************************************************************************)
\* C10: in every reachable state no two stored links have the same
\* (domain, slug) pair.
C10_DomainSlugUnique ==
    \A l1, l2 \in links :
        (l1.domain = l2.domain /\ l1.slug = l2.slug) => l1 = l2

\* Two create requests for one pair both passed the availability check;
\* one inserted, the other was stopped by the index.
C10_Witness ==
    \E r1, r2 \in ReqIds :
        /\ rq[r1].kind = "create" /\ rq[r2].kind = "create"
        /\ rq[r1].resp.status = 201 /\ rq[r2].resp.status = 500
        /\ rq[r1].arg.body.domain = rq[r2].arg.body.domain
        /\ rq[r1].arg.body.slug = rq[r2].arg.body.slug

\* The (domain, slug) pair a create request asks for, domain defaulted.
AskedDomain(r) ==
    IF rq[r].arg.body.domain = Undefined THEN DefaultDomain
    ELSE rq[r].arg.body.domain
SamePair(r, l) == l.domain = AskedDomain(r) /\ l.slug = rq[r].arg.body.slug

\* C11: a create request whose (domain, slug) pair, domain defaulted, is the
\* pair of a link stored when the request arrives is answered 400 "Slug
\* already in use" in that step, whatever its destinationUrl, and the step
\* leaves the link store as it was; a create request that reaches its
\* insert when the pair is stored adds no link and is not answered 201; an
\* answered create request does nothing more.
C11_DuplicatePairConflicts ==
    [][ \A r \in ReqIds :
          /\ ( /\ rq[r].kind = "none" /\ rq'[r].kind = "create"
               /\ \E l \in links :
                    /\ l.slug = rq'[r].arg.body.slug
                    /\ l.domain = IF rq'[r].arg.body.domain = Undefined
                                  THEN DefaultDomain
                                  ELSE rq'[r].arg.body.domain )
             => /\ rq'[r].pc = "done"
                /\ rq'[r].resp = [status |-> 400, body |-> "Slug already in use"]
                /\ links' = links
          /\ ( /\ rq[r].kind = "create" /\ rq[r].pc = "insert"
               /\ rq'[r].pc = "done"
               /\ \E l \in links : SamePair(r, l) )
             => /\ rq'[r].resp.status # 201
                /\ links' = links
          /\ (rq[r].kind = "create" /\ rq[r].pc = "done") => rq'[r] = rq[r]
      ]_vars

\* The request asks for the pair of a stored link with another destination,
\* is refused, and the stored link is as it was.
C11_Witness ==
    \E r \in ReqIds :
        /\ rq[r].kind = "create" /\ Found(r)
        /\ rq[r].resp.status = 400
        /\ rq[r].doc.destinationUrl # rq[r].arg.body.destinationUrl
        /\ rq[r].doc \in links
        /\ \A l \in links : l.id # r

\* C12: slug uniqueness is per domain: a create request that reaches its
\* insert while no stored link has its (domain, slug) pair and a stored link
\* of another domain has its slug is answered 201, and the store then holds
\* the links it held and the new one.
C12_SlugUniquePerDomain ==
    [][ \A r \in ReqIds :
          ( /\ rq[r].kind = "create" /\ rq[r].pc = "insert"
            /\ rq'[r].pc = "done"
            /\ \A l \in links : ~SamePair(r, l)
            /\ \E l \in links :
                    l.slug = rq[r].arg.body.slug /\ l.domain # AskedDomain(r) )
          => /\ rq'[r].resp.status = 201
             /\ links' = links \cup {NewLink(r, rq[r].arg.user, rq[r].arg.body)}
      ]_vars

(***************************************************************************)
(* POST /clicks.                                                           *)
(***************************************************************************)
\* C13: a POST /clicks request whose linkId names no stored link is
\* answered 404 "Link not found", makes no ClickEvent.create call and puts
\* no event into the store.
C13_UnknownLinkIdNotFound ==
    \A r \in ReqIds :
        (rq[r].kind = "click" /\ ~Found(r))
        => /\ rq[r].pc = "done"
           /\ rq[r].resp = [status |-> 404, body |-> "Link not found"]
           /\ rq[r].attempts = 0
           /\ rq[r].write = "none"
           /\ ClicksBy(r) = 0

\* C14: a POST /clicks request whose linkId names a stored link, once
\* answered, is answered 201 and has put exactly one event referencing that
\* link into the store, whichever optional fields its body carries (the
\* store rejecting the write apart).
C14_ClickCreatedForAnyBody ==
    \A r \in ReqIds :
        ( /\ rq[r].kind = "click" /\ Found(r)
          /\ rq[r].pc = "done" /\ rq[r].write # "failed" )
        => /\ rq[r].resp.status = 201
           /\ ClicksBy(r) = 1
           /\ \E i \in 1..Len(clicks) :
                clicks[i].by = r /\ clicks[i].linkId = rq[r].doc.id

(***************************************************************************)
(* The analytics read path.                                                *)
(***************************************************************************)
\* The request was answered with analytics data.
Analysed(r) ==
    rq[r].kind = "analytics" /\ rq[r].resp.status = 200 /\ rq[r].data # NoData
\* The events the request's query selects, as the store holds them.
Sel(r) == Selected(rq[r].arg.id, rq[r].arg.query)
\* The number of positions of a list that satisfy a test.
CountIn(evs, Test(_)) == Cardinality({i \in 1..Len(evs) : Test(evs[i])})
\* The count a breakdown gives a key, and the sum of its counts.
CountOf(b, k) == IF k \in DOMAIN b THEN b[k] ELSE 0
RECURSIVE SumOver(_, _)
SumOver(b, keys) ==
    IF keys = {} THEN 0
    ELSE LET k == CHOOSE x \in keys : TRUE IN b[k] + SumOver(b, keys \ {k})
SumOf(b) == SumOver(b, DOMAIN b)

KnownValues(evs, field) ==
    {IF evs[i][field] = Undefined THEN "Unknown" ELSE evs[i][field] :
        i \in 1..Len(evs)}

\* C16: uniqueCountries, uniqueDevices and uniqueBrowsers are the numbers
\* of distinct values of country, device and browser over the aggregated
\* events, the events without a value and those with the value "Unknown"
\* counting for one value together.
C16_UniqueCountsMergeUnknown ==
    \A r \in ReqIds :
        Analysed(r) =>
            /\ rq[r].data.uniqueCountries
                    = Cardinality(KnownValues(Sel(r), "country"))
            /\ rq[r].data.uniqueDevices
                    = Cardinality(KnownValues(Sel(r), "device"))
            /\ rq[r].data.uniqueBrowsers
                    = Cardinality(KnownValues(Sel(r), "browser"))

\* The list with two neighbours exchanged.
SwapAt(evs, i) ==
    [j \in 1..Len(evs) |->
        IF j = i THEN evs[i + 1] ELSE IF j = i + 1 THEN evs[i] ELSE evs[j]]
\* Rearrangements of a list: its reversal and the exchanges of neighbours
\* among its first MaxEvents + 1 events (of a list that short, the exchanges
\* generate every permutation).
Rearranged(evs) ==
    {Reverse(evs)} \cup
    {SwapAt(evs, i) : i \in {j \in 1..MaxEvents : j < Len(evs)}}
\* The response data without the list of events.
Figures(data) == [f \in DOMAIN data \ {"clicks"} |-> data[f]]

\* C17: the aggregation output (totalClicks, the unique counts and the
\* key -> count pairs of every breakdown) is the same for every
\* rearrangement of the aggregated list: the output of the request equals
\* the aggregate of the selected events in store order, of their reversal
\* and of every exchange of two neighbours.
C17_AggregationOrderFree ==
    \A r \in ReqIds :
        Analysed(r) =>
            /\ Figures(rq[r].data) = Aggregate(Sel(r))
            /\ \A p \in Rearranged(Sel(r)) : Aggregate(p) = Figures(rq[r].data)

\* Three events with three referrers, two countries and two devices, whose
\* orders all differ.
C17_Witness ==
    \E r \in ReqIds :
        /\ Analysed(r)
        /\ Len(Sel(r)) = 3
        /\ Cardinality(DOMAIN rq[r].data.referrerBreakdown) = 3
        /\ rq[r].data.uniqueCountries = 2
        /\ Sel(r)[1].timestamp < Sel(r)[2].timestamp

Covered(r) ==
    LET q == rq[r].arg.query
    IN {i \in 1..Len(clicks) :
          /\ clicks[i].linkId = rq[r].arg.id
          /\ (q.startDate # NoDate /\ q.endDate # NoDate)
                => (q.startDate <= clicks[i].timestamp
                    /\ clicks[i].timestamp <= q.endDate)}

\* C19: the aggregation of the analytics endpoint covers exactly the link's
\* events with startDate <= timestamp <= endDate when both are given, and
\* all of the link's events when one or none is given; no event of another
\* link is counted or listed.
C19_WindowInclusiveBothOrNone ==
    \A r \in ReqIds :
        Analysed(r) =>
            /\ rq[r].data.totalClicks = Cardinality(Covered(r))
            /\ SumOf(rq[r].data.deviceBreakdown) = Cardinality(Covered(r))
            /\ \A e \in EventKindSet :
                  e.linkId # rq[r].arg.id
                      => CountOf(rq[r].data.deviceBreakdown, e.device) = 0
            /\ \A j \in 1..Len(rq[r].data.clicks) :
                  \E i \in Covered(r) : clicks[i] = rq[r].data.clicks[j]
            /\ \A i \in Covered(r) :
                  Len(rq[r].data.clicks) < ClicksCap
                      => \E j \in 1..Len(rq[r].data.clicks) :
                            rq[r].data.clicks[j] = clicks[i]

\* Both bounds given and both met by events of the link; events of the link
\* before and after the window, and an event of another link inside it.
C19_Witness ==
    \E r \in ReqIds :
        /\ Analysed(r)
        /\ rq[r].arg.query = [startDate |-> 2, endDate |-> 3]
        /\ \E i, j \in Covered(r) :
                clicks[i].timestamp = 2 /\ clicks[j].timestamp = 3
        /\ \E i \in 1..Len(clicks) :
                clicks[i].linkId = rq[r].arg.id /\ clicks[i].timestamp = 1
        /\ \E i \in 1..Len(clicks) :
                clicks[i].linkId # rq[r].arg.id /\ clicks[i].timestamp = 2
        /\ rq[r].data.totalClicks = Cardinality(Covered(r))

\* C20: with n the number of selected events, the clicks list holds
\* min(100, n) of them in descending order of timestamp, and for every
\* instant as many events at or after it as the list can hold; totalClicks
\* and the counts of every breakdown cover all n events.
C20_ClicksCappedMostRecent ==
    \A r \in ReqIds :
        Analysed(r) =>
            LET n == Len(Sel(r))
                list == rq[r].data.clicks
            IN /\ Len(list) = IF n < 100 THEN n ELSE 100
               /\ \A j \in 1..Len(list) : \A k \in j..Len(list) :
                    list[j].timestamp >= list[k].timestamp
               /\ \A t \in {Sel(r)[i].timestamp : i \in 1..n} :
                    LET since == CountIn(Sel(r), LAMBDA c : c.timestamp >= t)
                    IN CountIn(list, LAMBDA c : c.timestamp >= t)
                            = IF since < Len(list) THEN since ELSE Len(list)
               /\ \A e \in EventKindSet : \A t \in 1..3 :
                    CountIn(list, LAMBDA c : c = [e EXCEPT !.timestamp = t])
                        <= CountIn(Sel(r),
                                   LAMBDA c : c = [e EXCEPT !.timestamp = t])
               /\ rq[r].data.totalClicks = n
               /\ SumOf(rq[r].data.referrerBreakdown) = n
               /\ SumOf(rq[r].data.countryBreakdown) = n
               /\ SumOf(rq[r].data.deviceBreakdown) = n
               /\ SumOf(rq[r].data.browserBreakdown) = n
               /\ SumOf(rq[r].data.utmBreakdown.source) = n
               /\ SumOf(rq[r].data.utmBreakdown.medium) = n
               /\ SumOf(rq[r].data.utmBreakdown.campaign) = n

\* More events selected than the list holds, of several instants, the
\* oldest of them left out.
C20_Witness ==
    \E r \in ReqIds :
        /\ Analysed(r)
        /\ Len(Sel(r)) > 100
        /\ Len(rq[r].data.clicks) = 100
        /\ rq[r].data.totalClicks > 100
        /\ rq[r].data.clicks[1].timestamp = 3
        /\ rq[r].data.clicks[100].timestamp = 1

(***************************************************************************)
(* The link listing and the two aggregations.                              *)
(***************************************************************************)
\* The request was answered with the listing of the user's links.
Listed(r) ==
    rq[r].kind = "list" /\ rq[r].resp.status = 200 /\ rq[r].data # NoData
\* The statistics a request returned, each with the events of its link as
\* the store holds them.
StatsOf(r) ==
    IF Analysed(r) THEN {<<rq[r].data, Sel(r)>>}
    ELSE IF Listed(r)
    THEN {<<rq[r].data.links[id], ClicksOf(id)>> : id \in DOMAIN rq[r].data.links}
    ELSE {}
\* The figures both endpoints return.
FigureNames ==
    {"totalClicks", "uniqueCountries", "uniqueDevices", "uniqueBrowsers",
     "referrerBreakdown", "countryBreakdown", "deviceBreakdown",
     "browserBreakdown", "utmBreakdown"}

\* C21: in the link listing, the recentClicks of each link are min(5, n) of
\* the link's n events, and for every instant as many events at or after it
\* as the list can hold (the most recent ones), in whatever order the store
\* returns the events.
C21_RecentClicksMostRecent ==
    \A r \in ReqIds :
        Listed(r) =>
            \A id \in DOMAIN rq[r].data.links :
                LET evs == ClicksOf(id)
                    list == rq[r].data.links[id].recentClicks
                IN /\ Len(list) = IF Len(evs) < 5 THEN Len(evs) ELSE 5
                   /\ \A t \in 1..3 :
                        LET since == CountIn(evs, LAMBDA c : c.timestamp >= t)
                        IN CountIn(list, LAMBDA c : c.timestamp >= t)
                             = IF since < Len(list) THEN since ELSE Len(list)

\* C24: for the same list of events, the statistics of the link listing
\* and those of the analytics endpoint are the same figures: what the
\* listing returns for a link is the analytics aggregation of that link's
\* events, and what the analytics endpoint returns is the listing's
\* aggregation of the selected events.
C24_ListingAggregatesAlike ==
    \A r \in ReqIds :
        /\ Listed(r) =>
              \A id \in DOMAIN rq[r].data.links :
                  [f \in FigureNames |-> rq[r].data.links[id][f]]
                      = Aggregate(ClicksOf(id))
        /\ Analysed(r) =>
              [f \in FigureNames |-> rq[r].data[f]] = ListingStats(Sel(r))

\* The listing of a link with three events, one of them without utmMedium.
C24_Witness ==
    \E r \in ReqIds :
        /\ Listed(r)
        /\ \E id \in DOMAIN rq[r].data.links :
            /\ rq[r].data.links[id].totalClicks = 3
            /\ CountOf(rq[r].data.links[id].utmBreakdown.medium, "None") = 1
            /\ CountOf(rq[r].data.links[id].utmBreakdown.medium, "email") = 2

C27_UniqueCountsMatchBreakdowns ==
    \A r \in ReqIds :
        \A p \in StatsOf(r) :
            /\ p[1].uniqueCountries = Cardinality(DOMAIN p[1].countryBreakdown)
            /\ p[1].uniqueDevices = Cardinality(DOMAIN p[1].deviceBreakdown)
            /\ p[1].uniqueBrowsers = Cardinality(DOMAIN p[1].browserBreakdown)
(***************************************************************************)
(* Ownership of links.                                                     *)
(***************************************************************************)
\* The PATCH or DELETE request a step starts, if it starts one.
Starts(r) == rq[r].kind = "none" /\ rq'[r].kind \in {"patch", "delete"}

\* C23: a PATCH or DELETE on a stored link by a user other than the link's
\* ownerId is answered 404 'Link not found' and leaves every stored link as
\* it was; a step that changes or removes a stored link is a PATCH or
\* DELETE of that link by the user its ownerId names.
C23_OnlyOwnerModifies ==
    [][ /\ \A r \in ReqIds :
            (Starts(r) /\ \E l \in links : /\ l.id = rq'[r].arg.id
                                           /\ l.ownerId # rq'[r].arg.user)
                => /\ rq'[r].resp = [status |-> 404, body |-> "Link not found"]
                   /\ links' = links
        /\ \A l \in links :
            l \notin links'
                => \E r \in ReqIds : /\ Starts(r)
                                     /\ rq'[r].arg.id = l.id
                                     /\ rq'[r].arg.user = l.ownerId
                                     /\ rq'[r].resp.status = 200 ]_vars

\* A user's PATCH of another user's stored link, answered 404, the link
\* still stored under its owner.
C23_Witness ==
    \E r \in ReqIds, l \in links :
        /\ rq[r].kind = "patch"
        /\ rq[r].arg.id = l.id
        /\ rq[r].arg.user # l.ownerId
        /\ rq[rq[r].arg.id].kind = "create"
        /\ rq[rq[r].arg.id].arg.user = l.ownerId
        /\ rq[r].resp = [status |-> 404, body |-> "Link not found"]

\* C26: every stored link's ownerId is the user whose POST created it (a
\* link's id is the slot of the request that created it), whatever the
\* bodies of the PATCH requests made since.
C26_OwnerIsCreator ==
    \A l \in links : /\ rq[l.id].kind = "create"
                     /\ l.ownerId = rq[l.id].arg.user

(***************************************************************************)
(* analyticsEnabled and the redirect path.                                 *)
(***************************************************************************)
\* C28: a redirect request to a stored, unexpired link without password
\* protection passes the gates whether the link's analyticsEnabled is true
\* or false; a request that passed the gates has called ClickEvent.create
\* once, has one event in the store when the write was accepted, and is
\* answered 302 to the link's destinationUrl, for either value of the flag.
C28_AnalyticsFlagIgnored ==
    \A r \in ReqIds, flag \in BOOLEAN :
        (IsRedirect(r) /\ Found(r) /\ rq[r].doc.analyticsEnabled = flag) =>
            /\ (Gated(r) /\ ~Expired(rq[r].doc, rq[r].at)
                         /\ ~rq[r].doc.passwordProtected) => GatePassed(r)
            /\ GatePassed(r) =>
                /\ rq[r].attempts = 1
                /\ rq[r].write \in {"pending", "ok", "failed"}
                /\ rq[r].write = "ok" => ClicksBy(r) = 1
                /\ rq[r].pc = "done" =>
                     rq[r].resp = [status |-> 302,
                                   body |-> rq[r].doc.destinationUrl]

\* A link patched to analyticsEnabled false, redirected to, its click stored.
C28_Witness ==
    \E r \in ReqIds :
        /\ IsRedirect(r) /\ Found(r)
        /\ ~rq[r].doc.analyticsEnabled
        /\ Redirected(r)
        /\ rq[r].write = "ok"
        /\ ClicksBy(r) = 1


(***************************************************************************)
(* The recorded address.                                                   *)
(***************************************************************************)
\* C22: the ip of a stored click event is the first entry of the request's
\* x-forwarded-for value (the text before the first comma) without the
\* spaces around it when the header is present and that entry holds
\* anything but spaces; otherwise the x-real-ip value when there is a
\* non-empty one; otherwise the connection's address when there is one;
\* otherwise "Unknown".
C22_RecordedIp ==
    \A i \in 1..Len(clicks) :
        LET e == clicks[i]
            h == rq[e.by].arg.headers
            v == h.xff.value
            InFirst(k) == \A j \in 1..k : v[j] # ","
            core == {k \in 1..Len(v) : InFirst(k) /\ v[k] # " "}
        IN IF h.xff.present /\ core # {}
           THEN \E a, b \in core :
                    /\ \A k \in core : a <= k /\ k <= b
                    /\ e.ip = [k \in 1..(b - a + 1) |-> v[a + k - 1]]
           ELSE IF h.xri.present /\ Len(h.xri.value) > 0
           THEN e.ip = h.xri.value
           ELSE IF h.remote.present /\ Len(h.remote.value) > 0
           THEN e.ip = h.remote.value
           ELSE e.ip = UnknownIp

\* x-forwarded-for: "1, 2" records "1".
C22_Witness ==
    \E i \in 1..Len(clicks) :
        /\ rq[clicks[i].by].arg.headers.xff = Header(<<"1", ",", " ", "2">>)
        /\ clicks[i].ip = <<"1">>


====
